---- MODULE Spec2Model ----
(***************************************************************************)
(* A model of the keyboard-types crate: the Key value type with its        *)
(* parsing (FromStr), Display and legacy charCode/keyCode derivation, the  *)
(* KeyState / CompositionState event-type names, the KeyboardEvent         *)
(* constructors and the composition session protocol.                      *)
(*                                                                         *)
(* A Rust &str / String is a finite sequence of Unicode scalar values      *)
(* (codepoints, as integers); its len() is its UTF-8 byte length.          *)
(***************************************************************************)
EXTENDS Integers, Sequences, FiniteSets, TLC

\* ------------------------------------------------------------------ bounds

\* Longest text generated over Alphabet.
MaxLen == 3

\* Longest sequence of composition events a run delivers.
MaxEvents == 4

\* ------------------------------------------------------- chars and strings

\* Codepoints the generated multi-codepoint texts are built from: tab (an
\* ASCII control), 'A' (ASCII), U+0085 (a non-ASCII control), U+00E9 and the
\* combining acute accent U+0301 (non-ASCII, not control).
Alphabet == {9, 65, 133, 233, 769}

\* Every ASCII codepoint, and non-ASCII ones of 2, 3 and 4 UTF-8 bytes.
Codepoints == (0..127) \cup {133, 159, 160, 233, 769, 20013, 128512}

\* char::is_control: the general category Cc, U+0000..U+001F and U+007F..U+009F.
is_control(c) == (c >= 0 /\ c <= 31) \/ (c >= 127 /\ c <= 159)

\* char::is_ascii: U+0000..U+007F.
is_ascii(c) == c >= 0 /\ c <= 127

\* char::len_utf8: the bytes a codepoint takes in a str.
len_utf8(c) ==
    IF c < 128 THEN 1 ELSE IF c < 2048 THEN 2 ELSE IF c < 65536 THEN 3 ELSE 4

\* str::len: the byte length of a str.
RECURSIVE str_len(_)
str_len(str) == IF str = <<>> THEN 0 ELSE len_utf8(Head(str)) + str_len(Tail(str))

\* Iterator::skip(n) over str::chars.
RECURSIVE skip(_, _)
skip(str, n) == IF n = 0 \/ str = <<>> THEN str ELSE skip(Tail(str), n - 1)

\* s.chars().all(|c| !c.is_control()), short-circuiting as Iterator::all does.
RECURSIVE all_not_control(_)
all_not_control(str) ==
    IF str = <<>> THEN TRUE
    ELSE IF is_control(Head(str)) THEN FALSE
    ELSE all_not_control(Tail(str))

\* iter.all(|c| !c.is_ascii()).
RECURSIVE all_not_ascii(_)
all_not_ascii(str) ==
    IF str = <<>> THEN TRUE
    ELSE IF is_ascii(Head(str)) THEN FALSE
    ELSE all_not_ascii(Tail(str))

is_key_string_skip2(str) == all_not_control(str) /\ all_not_ascii(skip(str, 2))

\* fn is_key_string(s: &str) -> bool
is_key_string(str) == all_not_control(str) /\ all_not_ascii(skip(str, 1))

\* The panic of Option::expect in first_char.
Panic == [tag |-> "panic", msg |-> "empty string"]

U32(n) == [tag |-> "u32", v |-> n]

\* fn first_char(s: &str) -> char; panics if the string is empty.
first_char(str) == IF str = <<>> THEN Panic ELSE U32(Head(str))

\* ------------------------------------------------------------------ NamedKey

\* The NamedKey values the crate's sources name: the seventeen with a fixed
\* legacy key code, and the default, Unidentified.
NamedKey ==
    {"Backspace", "Tab", "Enter", "Shift", "Control", "Alt", "CapsLock",
     "Escape", "PageUp", "PageDown", "End", "Home", "ArrowLeft", "ArrowUp",
     "ArrowRight", "ArrowDown", "Delete", "Unidentified"}

\* impl Display for NamedKey: the canonical string of each value.
NamedKey_fmt(k) ==
    CASE k = "Backspace" -> <<66, 97, 99, 107, 115, 112, 97, 99, 101>>
      [] k = "Tab" -> <<84, 97, 98>>
      [] k = "Enter" -> <<69, 110, 116, 101, 114>>
      [] k = "Shift" -> <<83, 104, 105, 102, 116>>
      [] k = "Control" -> <<67, 111, 110, 116, 114, 111, 108>>
      [] k = "Alt" -> <<65, 108, 116>>
      [] k = "CapsLock" -> <<67, 97, 112, 115, 76, 111, 99, 107>>
      [] k = "Escape" -> <<69, 115, 99, 97, 112, 101>>
      [] k = "PageUp" -> <<80, 97, 103, 101, 85, 112>>
      [] k = "PageDown" -> <<80, 97, 103, 101, 68, 111, 119, 110>>
      [] k = "End" -> <<69, 110, 100>>
      [] k = "Home" -> <<72, 111, 109, 101>>
      [] k = "ArrowLeft" -> <<65, 114, 114, 111, 119, 76, 101, 102, 116>>
      [] k = "ArrowUp" -> <<65, 114, 114, 111, 119, 85, 112>>
      [] k = "ArrowRight" -> <<65, 114, 114, 111, 119, 82, 105, 103, 104, 116>>
      [] k = "ArrowDown" -> <<65, 114, 114, 111, 119, 68, 111, 119, 110>>
      [] k = "Delete" -> <<68, 101, 108, 101, 116, 101>>
      [] k = "Unidentified" ->
            <<85, 110, 105, 100, 101, 110, 116, 105, 102, 105, 101, 100>>

Ok(v) == [ok |-> TRUE, v |-> v]

Err(e) == [ok |-> FALSE, e |-> e]

\* impl FromStr for NamedKey: the value whose canonical string the text is.
NamedKey_from_str(str) ==
    IF \E k \in NamedKey : NamedKey_fmt(k) = str
    THEN Ok(CHOOSE k \in NamedKey : NamedKey_fmt(k) = str)
    ELSE Err("UnrecognizedNamedKeyError")

\* impl Default for NamedKey
NamedKey_default == "Unidentified"

\* ----------------------------------------------------------------------- Key

\* enum Key { Character(String), Named(NamedKey) }
Character(str) == [tag |-> "Character", s |-> str]

Named(k) == [tag |-> "Named", k |-> k]

\* impl Default for Key
Key_default == Named(NamedKey_default)

\* impl From<NamedKey> for Key
Key_from(k) == Named(k)

Key_fmt_debug(key) ==
    IF key.tag = "Character" THEN <<34>> \o key.s \o <<34>> ELSE NamedKey_fmt(key.k)

\* impl fmt::Display for Key
Key_fmt(key) == IF key.tag = "Character" THEN key.s ELSE NamedKey_fmt(key.k)

Key_from_str_no_fallback(str) ==
    IF is_key_string(str) THEN Ok(Character(str)) ELSE Err("UnrecognizedKeyError")

\* impl FromStr for Key
Key_from_str(str) ==
    IF is_key_string(str) THEN Ok(Character(str))
    ELSE LET r == NamedKey_from_str(str) IN
         IF r.ok THEN Ok(Named(r.v)) ELSE Err("UnrecognizedKeyError")

legacy_charcode_last(key) ==
    IF key.tag = "Character"
    THEN (IF key.s = <<>> THEN U32(0) ELSE U32(key.s[Len(key.s)]))
    ELSE U32(0)

\* Key::legacy_charcode: c.chars().next().unwrap_or('\0') as u32
legacy_charcode(key) ==
    IF key.tag = "Character"
    THEN (IF key.s = <<>> THEN U32(0) ELSE U32(Head(key.s)))
    ELSE U32(0)

to_ascii_uppercase_missing(x) == x

\* x.to_ascii_uppercase() as u32, for x in 'a'..='z'
to_ascii_uppercase(x) == IF x >= 97 /\ x <= 122 THEN x - 32 ELSE x

\* The inner match of Key::legacy_keycode on first_char(c).
keycode_of_char(x) ==
    CASE x = 32 -> 32
      [] x >= 48 /\ x <= 57 -> x
      [] x >= 97 /\ x <= 122 -> to_ascii_uppercase(x)
      [] x >= 65 /\ x <= 90 -> x
      [] x \in {59, 58} -> 186
      [] x \in {61, 43} -> 187
      [] x \in {44, 60} -> 188
      [] x \in {45, 95} -> 189
      [] x \in {46, 62} -> 190
      [] x \in {47, 63} -> 191
      [] x \in {96, 126} -> 192
      [] x \in {91, 123} -> 219
      [] x \in {92, 124} -> 220
      [] x \in {93, 125} -> 221
      [] x \in {39, 34} -> 222
      [] OTHER -> 0

keycode_of_named_swapped(k) ==
    CASE k = "Backspace" -> 8
      [] k = "Tab" -> 9
      [] k = "Enter" -> 13
      [] k = "Shift" -> 16
      [] k = "Control" -> 17
      [] k = "Alt" -> 18
      [] k = "CapsLock" -> 20
      [] k = "Escape" -> 27
      [] k = "PageUp" -> 34
      [] k = "PageDown" -> 33
      [] k = "End" -> 35
      [] k = "Home" -> 36
      [] k = "ArrowLeft" -> 37
      [] k = "ArrowUp" -> 38
      [] k = "ArrowRight" -> 39
      [] k = "ArrowDown" -> 40
      [] k = "Delete" -> 46
      [] OTHER -> 0

\* The Named arms of Key::legacy_keycode, and its last arm for the rest.
keycode_of_named(k) ==
    CASE k = "Backspace" -> 8
      [] k = "Tab" -> 9
      [] k = "Enter" -> 13
      [] k = "Shift" -> 16
      [] k = "Control" -> 17
      [] k = "Alt" -> 18
      [] k = "CapsLock" -> 20
      [] k = "Escape" -> 27
      [] k = "PageUp" -> 33
      [] k = "PageDown" -> 34
      [] k = "End" -> 35
      [] k = "Home" -> 36
      [] k = "ArrowLeft" -> 37
      [] k = "ArrowUp" -> 38
      [] k = "ArrowRight" -> 39
      [] k = "ArrowDown" -> 40
      [] k = "Delete" -> 46
      [] OTHER -> 0

legacy_keycode_unguarded(key) ==
    IF key.tag = "Named" THEN U32(keycode_of_named(key.k))
    ELSE LET c == first_char(key.s) IN
         IF c.tag = "panic" THEN c ELSE U32(keycode_of_char(c.v))

\* Key::legacy_keycode: the Named arms, then the Character arm guarded by
\* c.len() == 1 (a byte length), then `_ => 0`.
legacy_keycode(key) ==
    IF key.tag = "Named" THEN U32(keycode_of_named(key.k))
    ELSE IF str_len(key.s) = 1
    THEN LET c == first_char(key.s) IN
         IF c.tag = "panic" THEN c ELSE U32(keycode_of_char(c.v))
    ELSE U32(0)

\* ------------------------------------------------ KeyState, CompositionState

\* enum KeyState { Down, Up }
KeyState == {"Down", "Up"}

\* impl Default for KeyState
KeyState_default == "Down"

KeyState_event_type_same(st) == "keydown"

\* KeyState::event_type
KeyState_event_type(st) == IF st = "Down" THEN "keydown" ELSE "keyup"

\* enum CompositionState { Start, Update, End }
CompositionState == {"Start", "Update", "End"}

\* CompositionState::event_type
CompositionState_event_type(st) ==
    CASE st = "Start" -> "compositionstart"
      [] st = "Update" -> "compositionupdate"
      [] st = "End" -> "compositionend"

\* struct CompositionEvent { state, data }
CompositionEvent(st, data) == [state |-> st, data |-> data]

\* ------------------------------------------------------------ KeyboardEvent

\* enum Code: Unidentified, its default, and two physical keys.
Code == {"Unidentified", "KeyA", "Enter"}

\* impl Default for Code
Code_default == "Unidentified"

\* impl Default for Location
Location_default == "Standard"

\* impl Default for Modifiers: no flag set.
Modifiers_default == {}

\* #[derive(Default)] for KeyboardEvent: every field's own default.
KeyboardEvent_default ==
    [state |-> KeyState_default, key |-> Key_default, code |-> Code_default,
     location |-> Location_default, modifiers |-> Modifiers_default,
     repeat |-> FALSE, is_composing |-> FALSE]

\* key.into(), for the two types that are Into<Key>: Key and NamedKey.
into(x) == IF x.from = "NamedKey" THEN Key_from(x.k) ELSE x.v

\* KeyboardEvent::key_down
key_down(k, code) ==
    [KeyboardEvent_default EXCEPT !.state = "Down", !.key = into(k), !.code = code]

key_up_default_state(k, code) ==
    [KeyboardEvent_default EXCEPT !.key = into(k), !.code = code]

\* KeyboardEvent::key_up
key_up(k, code) ==
    [KeyboardEvent_default EXCEPT !.state = "Up", !.key = into(k), !.code = code]

\* ------------------------------------------------------ composition session

tracker_step_restart(st, ev) ==
    CASE ev = "Start" -> [state |-> "Composing", ok |-> TRUE]
      [] st = "Composing" /\ ev = "Update" -> [state |-> "Composing", ok |-> TRUE]
      [] st = "Composing" /\ ev = "End" -> [state |-> "NotComposing", ok |-> TRUE]
      [] OTHER -> [state |-> st, ok |-> FALSE]

\* The session state machine: the three legal transitions; any other event
\* is a protocol violation and leaves the state as it is.
tracker_step(st, ev) ==
    CASE st = "NotComposing" /\ ev = "Start" -> [state |-> "Composing", ok |-> TRUE]
      [] st = "Composing" /\ ev = "Update" -> [state |-> "Composing", ok |-> TRUE]
      [] st = "Composing" /\ ev = "End" -> [state |-> "NotComposing", ok |-> TRUE]
      [] OTHER -> [state |-> st, ok |-> FALSE]

\* ------------------------------------------------------- Option and inputs

None == [tag |-> "None"]

Some(v) == [tag |-> "Some", v |-> v]

\* The texts of at most n codepoints over S.
BoundedSeq(S, n) == UNION {[1..m -> S] : m \in 0..n}

\* Texts that are close to a canonical string without being one: the typo of
\* is_key_string's documentation ("Ennter"), and a case variant ("enter").
Typos == {<<69, 110, 110, 116, 101, 114>>, <<101, 110, 116, 101, 114>>}

\* The texts handed to from_str and held by Key::Character.
Texts ==
    BoundedSeq(Alphabet, MaxLen) \cup {<<c>> : c \in Codepoints}
        \cup {<<65, 65>>, <<97, 98>>, <<97, 769>>}
        \cup {NamedKey_fmt(k) : k \in NamedKey} \cup Typos

\* Every Key value a caller can build: the enum's constructors are public.
Keys == {Character(t) : t \in Texts} \cup {Named(k) : k \in NamedKey}

\* The data of a composition event: empty, or one hiragana.
CompositionData == {<<>>, <<12354>>}

\* What the event constructors are called with as their key: Keys of both
\* variants (the default, the empty Character, one and two codepoints) and
\* NamedKeys, which are Into<Key>.
IntoKeys ==
    {[from |-> "Key", v |-> k] :
        k \in {Key_default, Character(<<>>), Character(<<97>>),
               Character(<<233, 769>>), Named("Enter")}}
      \cup {[from |-> "NamedKey", k |-> k] : k \in {"Enter", "Tab"}}

\* --------------------------------------------------------------- the state

VARIABLES
    s,          \* the &str at hand (an Option)
    key,        \* the Key at hand (an Option): built by the caller, or parsed
    parsed,     \* what Key::from_str(s) returned
    keystr,     \* what is_key_string(s) returned
    shown,      \* what Display wrote for key
    reparsed,   \* what Key::from_str(shown) returned
    charcode,   \* what key.legacy_charcode() returned
    keycode,    \* what key.legacy_keycode() returned, or its panic
    downEvent,  \* the last KeyboardEvent::key_down call and its result
    upEvent,    \* the last KeyboardEvent::key_up call and its result
    compEvent,  \* the CompositionEvent at hand
    etype,      \* what event_type() returned, with the value it was called on
    history,    \* the CompositionStates delivered so far, oldest first
    session,    \* the session tracker's state
    violation   \* whether the tracker has seen a protocol violation

keyVars == <<s, key, parsed, keystr, shown, reparsed, charcode, keycode>>

eventVars == <<downEvent, upEvent, compEvent, etype>>

sessionVars == <<history, session, violation>>

vars == <<keyVars, eventVars, sessionVars>>

\* ------------------------------------------------- parsing and legacy codes

NoKeyResults ==
    /\ parsed = None
    /\ keystr = None
    /\ shown = None
    /\ reparsed = None
    /\ charcode = None
    /\ keycode = None

NoEvents == downEvent = None /\ upEvent = None /\ compEvent = None /\ etype = None

NoSession == history = <<>> /\ session = "NotComposing" /\ violation = FALSE

\* A caller holds either a text to parse or a Key it built.
InitKey ==
    /\ \/ s \in {Some(t) : t \in Texts} /\ key = None
       \/ s = None /\ key \in {Some(k) : k \in Keys \cup {Key_default}}
    /\ NoKeyResults
    /\ NoEvents
    /\ NoSession

\* s.parse::<Key>()
FromStr ==
    /\ s # None
    /\ parsed' = Some(Key_from_str(s.v))
    /\ key' = IF parsed'.v.ok THEN Some(parsed'.v.v) ELSE key
    /\ UNCHANGED <<s, keystr, shown, reparsed, charcode, keycode>>
    /\ UNCHANGED <<eventVars, sessionVars>>

\* is_key_string(s), as the crate's own test calls it
IsKeyString ==
    /\ s # None
    /\ keystr' = Some(is_key_string(s.v))
    /\ UNCHANGED <<s, key, parsed, shown, reparsed, charcode, keycode>>
    /\ UNCHANGED <<eventVars, sessionVars>>

\* key.to_string()
Display ==
    /\ key # None
    /\ shown' = Some(Key_fmt(key.v))
    /\ UNCHANGED <<s, key, parsed, keystr, reparsed, charcode, keycode>>
    /\ UNCHANGED <<eventVars, sessionVars>>

\* key.to_string().parse::<Key>()
FromStrShown ==
    /\ shown # None
    /\ reparsed' = Some(Key_from_str(shown.v))
    /\ UNCHANGED <<s, key, parsed, keystr, shown, charcode, keycode>>
    /\ UNCHANGED <<eventVars, sessionVars>>

\* key.legacy_charcode()
LegacyCharcode ==
    /\ key # None
    /\ charcode' = Some(legacy_charcode(key.v))
    /\ UNCHANGED <<s, key, parsed, keystr, shown, reparsed, keycode>>
    /\ UNCHANGED <<eventVars, sessionVars>>

\* key.legacy_keycode()
LegacyKeycode ==
    /\ key # None
    /\ keycode' = Some(legacy_keycode(key.v))
    /\ UNCHANGED <<s, key, parsed, keystr, shown, reparsed, charcode>>
    /\ UNCHANGED <<eventVars, sessionVars>>

Next ==
    \/ FromStr
    \/ IsKeyString
    \/ Display
    \/ FromStrShown
    \/ LegacyCharcode
    \/ LegacyKeycode

Spec == InitKey /\ [][Next]_vars

\* ------------------------------------------------- properties of Key (Spec)

\* The key-string predicate as the crate documents it: no control character
\* anywhere, and no ASCII codepoint after the first.
KeyStringPredicate(str) ==
    /\ \A i \in 1..Len(str) : ~is_control(str[i])
    /\ \A i \in 2..Len(str) : ~is_ascii(str[i])

IsNamedKeyString(str) == \E k \in NamedKey : NamedKey_fmt(k) = str

\* C1: every Key that from_str produced (Character or Named, the empty
\* string included) is given back by from_str applied to what Display wrote
\* for it.
C1_RoundTrip ==
    (parsed # None /\ reparsed # None /\ parsed.v.ok)
        => /\ shown = Some(Key_fmt(parsed.v.v))
           /\ reparsed.v = Ok(parsed.v.v)

C1_Witness ==
    /\ s = Some(NamedKey_fmt("Enter"))
    /\ parsed = Some(Ok(Named("Enter")))
    /\ shown = s
    /\ reparsed = parsed

\* C2: from_str returns Character(text) for a key string; otherwise Named(k)
\* for the canonical string of k; otherwise UnrecognizedKeyError. So a parsed
\* Character always satisfies the predicate, and parsing fails exactly on a
\* text that is neither a key string nor a canonical string.
C2_FromStr ==
    parsed # None =>
        LET t == s.v
            r == parsed.v
        IN  /\ is_key_string(t) => r = Ok(Character(t))
            /\ (~is_key_string(t) /\ IsNamedKeyString(t))
                   => \E k \in NamedKey : NamedKey_fmt(k) = t /\ r = Ok(Named(k))
            /\ (r.ok /\ r.v.tag = "Character") => KeyStringPredicate(r.v.s)
            /\ ~r.ok <=> (~is_key_string(t) /\ ~IsNamedKeyString(t))
            /\ ~r.ok => r = Err("UnrecognizedKeyError")

C2_Witness ==
    /\ s = Some(<<69, 110, 110, 116, 101, 114>>)
    /\ parsed = Some(Err("UnrecognizedKeyError"))

\* The punctuation pairs of the legacy key code table, each with its code.
PunctuationCodes ==
    {<<{59, 58}, 186>>, <<{61, 43}, 187>>, <<{44, 60}, 188>>, <<{45, 95}, 189>>,
     <<{46, 62}, 190>>, <<{47, 63}, 191>>, <<{96, 126}, 192>>, <<{91, 123}, 219>>,
     <<{92, 124}, 220>>, <<{93, 125}, 221>>, <<{39, 34}, 222>>}

\* The key code stated for a single character.
CharacterKeycode(c) ==
    IF c = 32 THEN 32
    ELSE IF c \in 48..57 THEN c
    ELSE IF c \in 65..90 THEN c
    ELSE IF c \in 97..122 THEN c - 32
    ELSE IF \E p \in PunctuationCodes : c \in p[1]
    THEN (CHOOSE p \in PunctuationCodes : c \in p[1])[2]
    ELSE 0

\* C3: legacy_keycode of Character(s) is, for s of exactly one codepoint, 32
\* for space, the codepoint of a digit, the uppercase codepoint of a letter
\* of either case, the shared code of a punctuation pair and 0 for any other
\* character; and 0 for s of no or several codepoints.
C3_CharacterKeycode ==
    (keycode # None /\ key.v.tag = "Character")
        => keycode.v =
               U32(IF Len(key.v.s) = 1 THEN CharacterKeycode(key.v.s[1]) ELSE 0)

C3_Witness ==
    /\ key = Some(Character(<<97>>))
    /\ keycode = Some(U32(65))

\* The historical codes of the seventeen named keys that have one.
NamedKeycodes ==
    {<<"Backspace", 8>>, <<"Tab", 9>>, <<"Enter", 13>>, <<"Shift", 16>>,
     <<"Control", 17>>, <<"Alt", 18>>, <<"CapsLock", 20>>, <<"Escape", 27>>,
     <<"PageUp", 33>>, <<"PageDown", 34>>, <<"End", 35>>, <<"Home", 36>>,
     <<"ArrowLeft", 37>>, <<"ArrowUp", 38>>, <<"ArrowRight", 39>>,
     <<"ArrowDown", 40>>, <<"Delete", 46>>}

\* C4: legacy_keycode of Named(k) is the fixed code of k for the seventeen
\* listed keys and 0 for every other NamedKey.
C4_NamedKeycode ==
    (keycode # None /\ key.v.tag = "Named")
        => /\ \A p \in NamedKeycodes : key.v.k = p[1] => keycode.v = U32(p[2])
           /\ (\A p \in NamedKeycodes : key.v.k # p[1]) => keycode.v = U32(0)

C4_Witness ==
    /\ key = Some(Named("PageDown"))
    /\ keycode = Some(U32(34))

\* C5: legacy_charcode is the codepoint of the first character of a
\* Character's text, 0 for the empty text, and 0 for every Named key.
C5_Charcode ==
    charcode # None =>
        /\ (key.v.tag = "Character" /\ Len(key.v.s) >= 1)
               => charcode.v = U32(key.v.s[1])
        /\ (key.v.tag = "Character" /\ Len(key.v.s) = 0) => charcode.v = U32(0)
        /\ key.v.tag = "Named" => charcode.v = U32(0)

C5_Witness ==
    /\ key = Some(Character(<<233, 769>>))
    /\ charcode = Some(U32(233))

\* C6: legacy_charcode and legacy_keycode return an integer for every Key and
\* never panic (first_char never sees the empty string); both give 0 for
\* Character("").
C6_Total ==
    /\ charcode # None => (charcode.v.tag = "u32" /\ charcode.v.v \in Nat)
    /\ keycode # None => (keycode.v.tag = "u32" /\ keycode.v.v \in Nat)
    /\ (key = Some(Character(<<>>)) /\ charcode # None) => charcode.v = U32(0)
    /\ (key = Some(Character(<<>>)) /\ keycode # None) => keycode.v = U32(0)

C6_Witness ==
    /\ key = Some(Character(<<>>))
    /\ charcode = Some(U32(0))
    /\ keycode = Some(U32(0))

\* C10: is_key_string(s) holds exactly when s has no control character and
\* every codepoint of s after the first is non-ASCII; "A" is valid, "AA" is
\* not, and no single control character is.
C10_IsKeyString ==
    keystr # None =>
        /\ keystr.v <=> KeyStringPredicate(s.v)
        /\ s.v = <<65>> => keystr.v
        /\ s.v = <<65, 65>> => ~keystr.v
        /\ (Len(s.v) = 1 /\ is_control(s.v[1])) => ~keystr.v

C10_Witness ==
    /\ s = Some(<<65, 65>>)
    /\ keystr = Some(FALSE)

\* ------------------------------------------- keyboard events (SpecEvent)

InitEvent ==
    /\ s = None
    /\ key = None
    /\ NoKeyResults
    /\ NoEvents
    /\ NoSession

\* KeyboardEvent::key_down(key, code)
KeyDown(k, c) ==
    /\ downEvent' = Some([key |-> k, code |-> c, ret |-> key_down(k, c)])
    /\ UNCHANGED <<upEvent, compEvent, etype, keyVars, sessionVars>>

\* KeyboardEvent::key_up(key, code)
KeyUp(k, c) ==
    /\ upEvent' = Some([key |-> k, code |-> c, ret |-> key_up(k, c)])
    /\ UNCHANGED <<downEvent, compEvent, etype, keyVars, sessionVars>>

\* event.state.event_type(), on the event either constructor returned
KeyEventType ==
    /\ \E e \in {downEvent, upEvent} :
           /\ e # None
           /\ etype' = Some([of |-> e.v.ret.state,
                             str |-> KeyState_event_type(e.v.ret.state)])
    /\ UNCHANGED <<downEvent, upEvent, compEvent, keyVars, sessionVars>>

\* CompositionEvent { state, data }
NewCompositionEvent(st, data) ==
    /\ compEvent' = Some(CompositionEvent(st, data))
    /\ UNCHANGED <<downEvent, upEvent, etype, keyVars, sessionVars>>

\* event.state.event_type(), on a composition event
CompositionEventType ==
    /\ compEvent # None
    /\ etype' = Some([of |-> compEvent.v.state,
                      str |-> CompositionState_event_type(compEvent.v.state)])
    /\ UNCHANGED <<downEvent, upEvent, compEvent, keyVars, sessionVars>>

NextEvent ==
    \/ \E k \in IntoKeys, c \in Code : KeyDown(k, c)
    \/ \E k \in IntoKeys, c \in Code : KeyUp(k, c)
    \/ KeyEventType
    \/ \E st \in CompositionState, data \in CompositionData :
           NewCompositionEvent(st, data)
    \/ CompositionEventType

SpecEvent == InitEvent /\ [][NextEvent]_vars

\* C8: key_down gives state Down and key_up state Up, each with exactly the
\* given key and code and every other field as in KeyboardEvent::default():
\* default location, no modifiers, not repeated, not composing. For the same
\* key and code the two results differ in the state only.
C8_Constructors ==
    LET Rest(e) ==
            /\ e.v.ret.key = into(e.v.key)
            /\ e.v.ret.code = e.v.code
            /\ e.v.ret.location = KeyboardEvent_default.location
            /\ e.v.ret.modifiers = KeyboardEvent_default.modifiers
            /\ e.v.ret.modifiers = {}
            /\ e.v.ret.repeat = FALSE
            /\ e.v.ret.is_composing = FALSE
            /\ e.v.ret.repeat = KeyboardEvent_default.repeat
            /\ e.v.ret.is_composing = KeyboardEvent_default.is_composing
    IN  /\ downEvent # None => (downEvent.v.ret.state = "Down" /\ Rest(downEvent))
        /\ upEvent # None => (upEvent.v.ret.state = "Up" /\ Rest(upEvent))
        /\ (downEvent # None /\ upEvent # None
              /\ downEvent.v.key = upEvent.v.key /\ downEvent.v.code = upEvent.v.code)
               => /\ downEvent.v.ret # upEvent.v.ret
                  /\ [downEvent.v.ret EXCEPT !.state = "Up"] = upEvent.v.ret

C8_Witness ==
    /\ downEvent # None
    /\ upEvent # None
    /\ downEvent.v.key = [from |-> "Key", v |-> Character(<<97>>)]
    /\ downEvent.v.code = "KeyA"
    /\ upEvent.v.key = downEvent.v.key
    /\ upEvent.v.code = downEvent.v.code
    /\ downEvent.v.ret.state = "Down"
    /\ upEvent.v.ret.state = "Up"

\* The five event-type literals.
EventTypes ==
    {<<"Down", "keydown">>, <<"Up", "keyup">>, <<"Start", "compositionstart">>,
     <<"Update", "compositionupdate">>, <<"End", "compositionend">>}

\* C9: event_type returns "keydown" for Down, "keyup" for Up,
\* "compositionstart", "compositionupdate" and "compositionend" for Start,
\* Update and End: always one of the five literals, and different values
\* give different strings.
C9_EventType ==
    /\ etype # None => <<etype.v.of, etype.v.str>> \in EventTypes
    /\ \A a, b \in KeyState :
           a # b => KeyState_event_type(a) # KeyState_event_type(b)
    /\ \A a, b \in CompositionState :
           a # b => CompositionState_event_type(a) # CompositionState_event_type(b)
    /\ \A a \in KeyState, b \in CompositionState :
           KeyState_event_type(a) # CompositionState_event_type(b)

C9_Witness ==
    /\ upEvent # None
    /\ compEvent # None
    /\ etype = Some([of |-> "Up", str |-> "keyup"])

\* -------------------------------------- composition sessions (SpecSession)

InitSession ==
    /\ s = None
    /\ key = None
    /\ NoKeyResults
    /\ NoEvents
    /\ NoSession

\* The session tracker is handed the next composition event.
Observe(st, data) ==
    /\ Len(history) < MaxEvents
    /\ compEvent' = Some(CompositionEvent(st, data))
    /\ history' = Append(history, st)
    /\ LET r == tracker_step(session, st) IN
           /\ session' = r.state
           /\ violation' = (violation \/ ~r.ok)
    /\ UNCHANGED <<downEvent, upEvent, etype, keyVars>>

NextSession ==
    \E st \in CompositionState, data \in CompositionData : Observe(st, data)

SpecSession == InitSession /\ [][NextSession]_vars

\* A sequence of composition states made of whole sessions only, each one
\* Start, then Updates, then one End: it is empty or runs from a Start to an
\* End, an Update or End follows every Start and Update, and only a Start
\* follows an End.
WellFormed(h) ==
    /\ h # <<>> => (h[1] = "Start" /\ h[Len(h)] = "End")
    /\ \A i \in 1..(Len(h) - 1) :
           IF h[i] = "End" THEN h[i + 1] = "Start" ELSE h[i + 1] \in {"Update", "End"}

\* The state the events before the i-th leave a session in, read off the
\* sequence: composing exactly when the last Start or End before i is a Start.
ComposingBefore(h, i) ==
    \E j \in 1..(i - 1) :
        /\ h[j] = "Start"
        /\ \A m \in (j + 1)..(i - 1) : h[m] = "Update"

\* C7: the tracker accepts a sequence of composition events (no violation,
\* and no session left open) exactly when it is made of sessions of one
\* Start, zero or more Updates and one End; an Update or End that comes while
\* not composing is a violation; a Start after an End begins a new session.
C7_Session ==
    /\ (~violation /\ session = "NotComposing") <=> WellFormed(history)
    /\ (\E i \in 1..Len(history) :
            history[i] \in {"Update", "End"} /\ ~ComposingBefore(history, i))
           => violation
    /\ history = <<"Start", "Update", "Update", "End">> => ~violation
    /\ history = <<"Update", "End">> => violation
    /\ history = <<"Start", "End", "Update">> => violation
    /\ history = <<"Start", "End", "Start">> => (~violation /\ session = "Composing")

C7_Witness ==
    /\ history = <<"Start", "Update", "Update", "End">>
    /\ session = "NotComposing"
    /\ ~violation

====
